---- MODULE Spec2Model ----
(***************************************************************************)
(* Model of the distributed dataset enhancer: the master (src/master/      *)
(* backup.py) splits a JSON dataset into one fragment per worker, watches  *)
(* the workers and combines their results; each worker (src/worker/        *)
(* worker.py) enhances the entries of its fragment with checkpoints.       *)
(*                                                                         *)
(* JSON values are nodes [t, k, s, items]:                                 *)
(*   t      "list", "dict", "str" or "num"                                 *)
(*   k      the key under which the node sits in its parent dict, else ""  *)
(*   s      the text of a scalar, else ""                                  *)
(*   items  the elements of a list / the members of a dict, in order       *)
(* Texts are tokens without surrounding white space.                       *)
(***************************************************************************)
EXTENDS Integers, Sequences, FiniteSets, TLC

\* ------------------------------------------------------------------ bounds
SplitEntries == 23       \* the partitioner alone: entry counts 0..SplitEntries
SplitWorkers == 4        \* the partitioner alone: worker counts 1..SplitWorkers
MaxEntries == 2          \* the whole system: entry counts 0..MaxEntries
MaxWorkers == 2          \* the whole system: worker counts 1..MaxWorkers
SmallEntries == 2        \* one worker alone: small fragments of 0..SmallEntries
Intervals == 2           \* one worker alone: large fragments of up to
                         \* Intervals checkpoint intervals
MaxRuns == 2             \* how many times a worker process is started

\* --------------------------------------------------------- program constants
CHECKPOINT_INTERVAL == 100
PROGRESS_INTERVAL == 10
max_retries == 3

\* ------------------------------------------------------------- JSON values
JStr(txt) == [t |-> "str", k |-> "", s |-> txt, items |-> <<>>]
JNum(txt) == [t |-> "num", k |-> "", s |-> txt, items |-> <<>>]
JList(seq) == [t |-> "list", k |-> "", s |-> "", items |-> seq]
JDict(members) == [t |-> "dict", k |-> "", s |-> "", items |-> members]
EmptyDict == JDict(<<>>)
Member(key, node) == [node EXCEPT !.k = key]

isinstance_list(node) == node.t = "list"
isinstance_dict(node) == node.t = "dict"

\* key in d
HasKey(d, key) == \E i \in 1..Len(d.items) : d.items[i].k = key

\* d[key] (the value, without its key)
GetItem(d, key) ==
    LET i == CHOOSE j \in 1..Len(d.items) : d.items[j].k = key
    IN  Member("", d.items[i])

\* d[key] = node on a copy of d: an existing key keeps its place, a new key
\* goes last
SetItem(d, key, node) ==
    IF HasKey(d, key)
    THEN [d EXCEPT !.items = [i \in 1..Len(d.items) |->
                 IF d.items[i].k = key THEN Member(key, node) ELSE d.items[i]]]
    ELSE [d EXCEPT !.items = Append(d.items, Member(key, node))]

\* [k for k, v in d.items() if isinstance(v, list)]
RECURSIVE ListFieldsFrom(_, _)
ListFieldsFrom(d, i) ==
    IF i > Len(d.items) THEN <<>>
    ELSE IF isinstance_list(d.items[i])
         THEN <<d.items[i].k>> \o ListFieldsFrom(d, i + 1)
         ELSE ListFieldsFrom(d, i + 1)
list_fields(d) == ListFieldsFrom(d, 1)

\* a slice that takes the end index too: neighbouring fragments would overlap
SliceEndInclusive(seq, a, b) ==
    LET lo == IF a < Len(seq) THEN a ELSE Len(seq)
        hi == IF b + 1 < Len(seq) THEN b + 1 ELSE Len(seq)
    IN  IF hi <= lo THEN <<>> ELSE SubSeq(seq, lo + 1, hi)
\* entries[a:b] of a Python list, 0-based, end exclusive, clamped
Slice(seq, a, b) ==
    LET lo == IF a < Len(seq) THEN a ELSE Len(seq)
        hi == IF b < Len(seq) THEN b ELSE Len(seq)
    IN  IF hi <= lo THEN <<>> ELSE SubSeq(seq, lo + 1, hi)

\* ---------------------------------------------------------- shape detection
\* The "Determine data structure" block of load_and_split_data.  raises is
\* TRUE where Python raises: data.items() of a document that is neither a
\* list nor a dict.  entries is the Python value bound to `entries`, as a
\* node (a list node for the three well-formed cases).
detect_structure(data) ==
    IF isinstance_list(data)
    THEN [raises |-> FALSE, data_structure |-> "list",
          list_field_name |-> "", entries |-> data]
    ELSE IF isinstance_dict(data) /\ HasKey(data, "data")
    THEN [raises |-> FALSE, data_structure |-> "dict_with_data",
          list_field_name |-> "", entries |-> GetItem(data, "data")]
    ELSE IF ~isinstance_dict(data)
    THEN [raises |-> TRUE, data_structure |-> "none",
          list_field_name |-> "", entries |-> JList(<<>>)]
    ELSE IF list_fields(data) # <<>>
    THEN [raises |-> FALSE, data_structure |-> "dict_with_list",
          list_field_name |-> list_fields(data)[1],
          entries |-> GetItem(data, list_fields(data)[1])]
    ELSE [raises |-> FALSE, data_structure |-> "single_object",
          list_field_name |-> "", entries |-> JList(<<data>>)]

\* len(entries): defined for a list and a dict; a number raises TypeError
\* (documents whose entries value is a string are outside the inputs)
len_raises(node) == node.t = "num"
len(node) == Len(node.items)
\* a slice that a mapping answers with nothing instead of raising
slice_raises_numbers_only(node) == node.t = "num"
\* entries[a:b]: a dict raises (it cannot be sliced)
slice_raises(node) == node.t \in {"dict", "num"}

\* ------------------------------------------------------------ fragment sizes
\* sizes that give the whole remainder to the last worker
fragment_sizes_remainder_last(total_entries, NUM_WORKERS) ==
    LET base_size == total_entries \div NUM_WORKERS
        remainder == total_entries % NUM_WORKERS
    IN  [i \in 1..NUM_WORKERS |->
            base_size + (IF i = NUM_WORKERS THEN remainder ELSE 0)]
\* fragment_sizes[i] for worker_id i (1-based here, range(NUM_WORKERS) there)
fragment_sizes(total_entries, NUM_WORKERS) ==
    LET base_size == total_entries \div NUM_WORKERS
        remainder == total_entries % NUM_WORKERS
    IN  [i \in 1..NUM_WORKERS |-> base_size + (IF i - 1 < remainder THEN 1 ELSE 0)]

\* a fragment written as the bare list of its entries, whatever the shape
fragment_document_bare_list(data, ds, fragment) == JList(fragment)
\* the document written to fragment_file for one slice
fragment_document(data, ds, fragment) ==
    IF ds.data_structure = "list" THEN JList(fragment)
    ELSE IF ds.data_structure = "dict_with_data"
    THEN SetItem(data, "data", JList(fragment))
    ELSE IF ds.data_structure = "dict_with_list"
    THEN SetItem(data, ds.list_field_name, JList(fragment))
    ELSE IF fragment # <<>> THEN fragment[1] ELSE EmptyDict

\* ---------------------------------------------------------------- the state
VARIABLES
    NUM_WORKERS,      \* master configuration, read once at start
    collab,           \* how the enhancement collaborator behaves in this run
    write_faults,     \* whether the file system of RESULT_DIR may fail a write
    input_file,       \* INPUT_FILE of the master: the source document
    fragment_file,    \* FRAGMENT_DIR/fragment_<w>.json
    result_file,      \* RESULT_DIR/result_<w>.json
    checkpoint_file,  \* RESULT_DIR/checkpoint_<w>.json
    snapshot_file,    \* RESULT_DIR/result_<w>.json.checkpoint
    progress_file,    \* RESULT_DIR/progress_<w>.json
    log_file,         \* RESULT_DIR/worker_<w>.log, the lines the master matches
    output_file,      \* OUTPUT_FILE of the master
    m_pc,             \* where main() of the master is
    start_idx,        \* load_and_split_data: start_idx
    fragments,        \* load_and_split_data: fragments
    worker_status,    \* the shared worker_status dict
    last_position,    \* monitor_worker_log: lines of the log already read
    new_lines,        \* monitor_worker_log: lines read and not yet handled
    combined_entries, \* combine_results: combined_entries
    combine_i,        \* combine_results: how many result files were read
    w_pc,             \* where each worker process is
    w_run,            \* how many times each worker process was started
    start_index,      \* process_fragment: start_index
    loop_i,           \* process_fragment: i, the next index of the for loop
    result_entries,   \* process_fragment: result_entries
    progress_calls,   \* processed_count of each save_progress call of this run
    resumed_from,     \* the processed_entries of the checkpoint this run took
    exhausted,        \* the indices whose retries all failed in this run
    chat_calls,       \* enhance_description: the outcome of each ollama.chat
                      \* call made for the entry attempted last
    status_lock,      \* status_lock: 0 free, w held by the watcher of worker w,
                      \* -1 held by the main thread
    update_pc,        \* monitor_worker_log: inside "with status_lock", the next
                      \* assignment of the current line (0 outside the block)
    fallback_w,       \* monitor_workers: the worker whose status the main thread
                      \* is writing under the lock (0: none)
    fallback_pc,      \* monitor_workers: the next assignment of that block
    display           \* display_status: its position and its local variables

vars == <<NUM_WORKERS, collab, write_faults, input_file, fragment_file, result_file,
          checkpoint_file, snapshot_file, progress_file, log_file, output_file,
          m_pc, start_idx, fragments, worker_status, last_position, new_lines,
          combined_entries, combine_i, w_pc, w_run, start_index, loop_i, result_entries,
          progress_calls, resumed_from, exhausted, chat_calls,
          status_lock, update_pc, fallback_w, fallback_pc, display>>

file_vars == <<fragment_file, result_file, checkpoint_file, snapshot_file,
               progress_file, log_file, output_file>>
master_vars == <<m_pc, start_idx, fragments, worker_status, last_position,
                 new_lines, combined_entries, combine_i>>
worker_vars == <<w_pc, w_run, start_index, loop_i, result_entries,
                 progress_calls, resumed_from, exhausted, chat_calls>>
config_vars == <<NUM_WORKERS, collab, write_faults, input_file>>
thread_vars == <<status_lock, update_pc, fallback_w, fallback_pc, display>>

Workers == 1..NUM_WORKERS

\* ------------------------------------------------------------- file contents
NoFile == [t |-> "absent", k |-> "", s |-> "", items |-> <<>>]
\* a file opened for writing whose json.dump has not finished, or a file that
\* does not hold JSON: json.load raises on it
Torn == [t |-> "torn", k |-> "", s |-> "", items |-> <<>>]
exists(file) == file.t # "absent"
json_load_raises(file) == file.t \in {"absent", "torn"}

NoCheckpoint == [state |-> "absent", processed |-> 0, total |-> 0,
                 processed_entries |-> <<>>]
NoProgress == [processed |-> 0, total |-> 0, stage |-> "none"]
NoStatus == [status |-> "none", progress |-> 0, total |-> 0,
             stage |-> "none", completed |-> FALSE]
\* display_status before its thread is started
NoDisplay == [pc |-> "top", w |-> 0, total_entries |-> 0, processed_entries |-> 0,
              overall_percentage |-> 0, stage |-> "none", progress |-> 0,
              total |-> 0, percentage |-> 0]

\* ------------------------------------------------------------ the documents
Text(prefix, i) == prefix \o ToString(i)
Entry(i) == JDict(<<Member("input", JStr(Text("in", i))),
                    Member("output", JStr(Text("out", i)))>>)
Entries(n) == [i \in 1..n |-> Entry(i)]

ListDoc(n) == JList(Entries(n))
DataDoc(n) == JDict(<<Member("version", JStr("v1")),
                      Member("data", JList(Entries(n)))>>)
NamedListDoc(n) == JDict(<<Member("version", JStr("v1")),
                           Member("records", JList(Entries(n))),
                           Member("notes", JList(<<>>))>>)
SingleDoc == Entry(1)
\* documents the partitioner cannot split
NumberDoc == JNum("7")
DataNumberDoc == JDict(<<Member("data", JNum("7"))>>)
DataDictDoc == JDict(<<Member("data", Entry(1))>>)

WellFormedDocs(maxn) ==
    {ListDoc(n) : n \in 0..maxn} \cup {DataDoc(n) : n \in 0..maxn}
        \cup {NamedListDoc(n) : n \in 0..maxn} \cup {SingleDoc}
BadDocs == {NoFile, Torn, NumberDoc, DataNumberDoc, DataDictDoc}

\* --------------------------------------------------------------- the master
ds == detect_structure(input_file)
entries == ds.entries
total_entries == len(entries)

\* main() up to "Fragment sizes": read and parse INPUT_FILE, detect the
\* structure, compute the sizes.  Any exception is logged and raised again.
MasterLoad ==
    /\ m_pc = "load"
    /\ IF json_load_raises(input_file) \/ ds.raises \/ len_raises(entries)
       THEN m_pc' = "failed"
       ELSE m_pc' = "split"
    /\ UNCHANGED <<start_idx, fragments, worker_status, last_position,
                   new_lines, combined_entries, combine_i>>
    /\ UNCHANGED <<config_vars, thread_vars, file_vars, worker_vars>>

\* one iteration of "for worker_id in range(NUM_WORKERS)"; after the last
\* one load_and_split_data returns and monitor_workers starts
MasterSplit ==
    /\ m_pc = "split"
    /\ LET worker_id == Len(fragments)
           size == fragment_sizes(total_entries, NUM_WORKERS)[worker_id + 1]
           end_idx == start_idx + size
           fragment == Slice(entries.items, start_idx, end_idx)
       IN  IF slice_raises(entries)
           THEN /\ m_pc' = "failed"
                /\ UNCHANGED <<fragment_file, fragments, worker_status, start_idx>>
           ELSE /\ fragment_file' = [fragment_file EXCEPT ![worker_id + 1] =
                        fragment_document(input_file, ds, fragment)]
                /\ fragments' = Append(fragments,
                        [worker_id |-> worker_id + 1, size |-> size,
                         start_idx |-> start_idx, end_idx |-> end_idx])
                /\ worker_status' = [worker_status EXCEPT ![worker_id + 1] =
                        [status |-> "Ready", progress |-> 0, total |-> size,
                         stage |-> "Not started", completed |-> FALSE]]
                /\ start_idx' = end_idx
                /\ m_pc' = IF worker_id + 1 = NUM_WORKERS THEN "monitor" ELSE "split"
    /\ UNCHANGED <<last_position, new_lines, combined_entries, combine_i>>
    /\ UNCHANGED <<result_file, checkpoint_file, snapshot_file, progress_file,
                   log_file, output_file>>
    /\ UNCHANGED <<config_vars, thread_vars, worker_vars>>

\* ------------------------------------------------------ the master's threads
AllCompleted == \A w \in Workers : worker_status[w].completed
\* the watcher and display threads are daemon threads of monitor_workers:
\* they run from its start until the master process ends
ThreadsRun == m_pc \in {"monitor", "combine"}

\* monitor_worker_log: one pass of the while loop up to readlines(); the
\* loop ends once the worker is marked completed
WatcherRead(w) ==
    /\ ThreadsRun
    /\ ~worker_status[w].completed
    /\ new_lines[w] = <<>>
    /\ last_position[w] < Len(log_file[w])
    /\ new_lines' = [new_lines EXCEPT ![w] =
           SubSeq(log_file[w], last_position[w] + 1, Len(log_file[w]))]
    /\ last_position' = [last_position EXCEPT ![w] = Len(log_file[w])]
    /\ UNCHANGED <<m_pc, start_idx, fragments, worker_status, combined_entries,
                   combine_i>>
    /\ UNCHANGED <<config_vars, thread_vars, file_vars, worker_vars>>

\* "Update status based on log content": the status after one line
status_after_line(status, line) ==
    IF line.kind = "Starting Ollama"
    THEN [status EXCEPT !.stage = "Starting Ollama"]
    ELSE IF line.kind = "Pulling model"
    THEN [status EXCEPT !.stage = "Pulling model"]
    ELSE IF line.kind = "Ollama service is running"
    THEN [status EXCEPT !.stage = "Ollama ready"]
    ELSE IF line.kind = "Error processing fragment"
    THEN [status EXCEPT !.stage = "Processing"]
    ELSE IF line.kind = "Processed"
    THEN [status EXCEPT !.progress = line.current, !.total = line.total,
                        !.status = "Processing"]
    ELSE IF line.kind = "Processing completed"
    THEN [status EXCEPT !.status = "Completed", !.progress = status.total,
                        !.completed = TRUE]
    ELSE status

\* monitor_worker_log: one line of new_lines, handled under status_lock
WatcherLine(w) ==
    /\ ThreadsRun
    /\ new_lines[w] # <<>>
    /\ worker_status' = [worker_status EXCEPT ![w] =
           status_after_line(@, Head(new_lines[w]))]
    /\ new_lines' = [new_lines EXCEPT ![w] = Tail(@)]
    /\ UNCHANGED <<m_pc, start_idx, fragments, last_position, combined_entries,
                   combine_i>>
    /\ UNCHANGED <<config_vars, thread_vars, file_vars, worker_vars>>

\* a fallback that sets the status text and leaves the completed flag
MonitorResultFileStatusOnly(w) ==
    /\ m_pc = "monitor"
    /\ ~AllCompleted
    /\ exists(result_file[w])
    /\ ~worker_status[w].completed
    /\ worker_status' = [worker_status EXCEPT ![w] =
           [@ EXCEPT !.status = "Completed",
                     !.progress = worker_status[w].total]]
    /\ UNCHANGED <<m_pc, start_idx, fragments, last_position, new_lines,
                   combined_entries, combine_i>>
    /\ UNCHANGED <<config_vars, thread_vars, file_vars, worker_vars>>

\* monitor_workers, "Check for result files as a backup completion
\* indicator": the check of one worker in a pass of the while loop
MonitorResultFile(w) ==
    /\ m_pc = "monitor"
    /\ ~AllCompleted
    /\ exists(result_file[w])
    /\ ~worker_status[w].completed
    /\ worker_status' = [worker_status EXCEPT ![w] =
           [@ EXCEPT !.status = "Completed",
                     !.progress = worker_status[w].total,
                     !.completed = TRUE]]
    /\ UNCHANGED <<m_pc, start_idx, fragments, last_position, new_lines,
                   combined_entries, combine_i>>
    /\ UNCHANGED <<config_vars, thread_vars, file_vars, worker_vars>>

\* monitor_workers: the while loop ends, monitor_workers returns and main
\* calls combine_results
MonitorReturn ==
    /\ m_pc = "monitor"
    /\ fallback_w = 0
    /\ AllCompleted
    /\ m_pc' = "combine"
    /\ UNCHANGED <<start_idx, fragments, worker_status, last_position, new_lines,
                   combined_entries, combine_i>>
    /\ UNCHANGED <<config_vars, thread_vars, file_vars, worker_vars>>

\* monitor_workers, "except KeyboardInterrupt": Ctrl+C ends the while loop,
\* monitor_workers returns and main calls combine_results
MonitorInterrupted ==
    /\ m_pc = "monitor"
    /\ ~AllCompleted
    /\ m_pc' = "combine"
    /\ UNCHANGED <<start_idx, fragments, worker_status, last_position, new_lines,
                   combined_entries, combine_i>>
    /\ UNCHANGED <<config_vars, thread_vars, file_vars, worker_vars>>

\* ------------------------------------------- the status lock and the display
\* WatcherLine and MonitorResultFile take a whole "with status_lock" block as
\* one step, which is how every thread that takes the lock sees it.  The
\* display thread takes no lock, so for it the blocks are opened up here, one
\* assignment to worker_status per step.

\* how many assignments to worker_status the block makes for a line
writes_of(line) ==
    IF line.kind \in {"Processed", "Processing completed"} THEN 3 ELSE 1
\* the status after the n-th assignment of the block for that line
status_after_write(status, line, n) ==
    IF line.kind = "Starting Ollama"
    THEN [status EXCEPT !.stage = "Starting Ollama"]
    ELSE IF line.kind = "Pulling model"
    THEN [status EXCEPT !.stage = "Pulling model"]
    ELSE IF line.kind = "Ollama service is running"
    THEN [status EXCEPT !.stage = "Ollama ready"]
    ELSE IF line.kind = "Error processing fragment"
    THEN [status EXCEPT !.stage = "Processing"]
    ELSE IF line.kind = "Processed"
    THEN IF n = 1 THEN [status EXCEPT !.progress = line.current]
         ELSE IF n = 2 THEN [status EXCEPT !.total = line.total]
         ELSE [status EXCEPT !.status = "Processing"]
    ELSE IF line.kind = "Processing completed"
    THEN IF n = 1 THEN [status EXCEPT !.status = "Completed"]
         ELSE IF n = 2 THEN [status EXCEPT !.progress = status.total]
         ELSE [status EXCEPT !.completed = TRUE]
    ELSE status

\* monitor_worker_log: "with status_lock" is entered for the next line
WatcherLock(w) ==
    /\ ThreadsRun
    /\ new_lines[w] # <<>>
    /\ update_pc[w] = 0
    /\ status_lock = 0
    /\ status_lock' = w
    /\ update_pc' = [update_pc EXCEPT ![w] = 1]
    /\ UNCHANGED <<fallback_w, fallback_pc, display>>
    /\ UNCHANGED <<config_vars, file_vars, master_vars, worker_vars>>

\* monitor_worker_log: one assignment to worker_status[worker_id]
WatcherWrite(w) ==
    /\ ThreadsRun
    /\ status_lock = w
    /\ update_pc[w] \in 1..writes_of(Head(new_lines[w]))
    /\ worker_status' = [worker_status EXCEPT ![w] =
           status_after_write(@, Head(new_lines[w]), update_pc[w])]
    /\ update_pc' = [update_pc EXCEPT ![w] = @ + 1]
    /\ UNCHANGED <<m_pc, start_idx, fragments, last_position, new_lines,
                   combined_entries, combine_i>>
    /\ UNCHANGED <<status_lock, fallback_w, fallback_pc, display>>
    /\ UNCHANGED <<config_vars, file_vars, worker_vars>>

\* monitor_worker_log: the block ends, the lock is released, the line is done
WatcherUnlock(w) ==
    /\ ThreadsRun
    /\ status_lock = w
    /\ update_pc[w] > writes_of(Head(new_lines[w]))
    /\ status_lock' = 0
    /\ update_pc' = [update_pc EXCEPT ![w] = 0]
    /\ new_lines' = [new_lines EXCEPT ![w] = Tail(@)]
    /\ UNCHANGED <<m_pc, start_idx, fragments, worker_status, last_position,
                   combined_entries, combine_i>>
    /\ UNCHANGED <<fallback_w, fallback_pc, display>>
    /\ UNCHANGED <<config_vars, file_vars, worker_vars>>

\* monitor_workers: the result file of w is there and w is not completed;
\* "with status_lock" is entered
FallbackLock(w) ==
    /\ m_pc = "monitor"
    /\ fallback_w = 0
    /\ ~AllCompleted
    /\ exists(result_file[w])
    /\ ~worker_status[w].completed
    /\ status_lock = 0
    /\ status_lock' = -1
    /\ fallback_w' = w
    /\ fallback_pc' = 1
    /\ UNCHANGED <<update_pc, display>>
    /\ UNCHANGED <<config_vars, file_vars, master_vars, worker_vars>>

\* monitor_workers: one of the three assignments of the block, or its end
FallbackWrite ==
    /\ m_pc = "monitor"
    /\ fallback_w # 0
    /\ IF fallback_pc <= 3
       THEN /\ worker_status' = [worker_status EXCEPT ![fallback_w] =
                   IF fallback_pc = 1 THEN [@ EXCEPT !.status = "Completed"]
                   ELSE IF fallback_pc = 2
                   THEN [@ EXCEPT !.progress = worker_status[fallback_w].total]
                   ELSE [@ EXCEPT !.completed = TRUE]]
            /\ fallback_pc' = fallback_pc + 1
            /\ UNCHANGED <<status_lock, fallback_w>>
       ELSE /\ status_lock' = 0
            /\ fallback_w' = 0
            /\ fallback_pc' = 0
            /\ UNCHANGED worker_status
    /\ UNCHANGED <<m_pc, start_idx, fragments, last_position, new_lines,
                   combined_entries, combine_i>>
    /\ UNCHANGED <<update_pc, display>>
    /\ UNCHANGED <<config_vars, file_vars, worker_vars>>

RECURSIVE SumField(_, _, _)
SumField(status, field, n) ==
    IF n = 0 THEN 0
    ELSE SumField(status, field, n - 1)
            + (IF field = "total" THEN status[n].total ELSE status[n].progress)
\* part / whole * 100 as it is shown with one decimal, in tenths of a percent
percent(part, whole) ==
    IF whole > 0 THEN (2000 * part + whole) \div (2 * whole) ELSE 0

\* display_status: the display after its next step.  It reads worker_status
\* without taking the lock, one value per step.
display_next(d) ==
    IF d.pc = "top"
    THEN IF AllCompleted THEN [d EXCEPT !.pc = "final"]
         ELSE [d EXCEPT !.pc = "totals"]
    ELSE IF d.pc = "totals"
    THEN [d EXCEPT !.total_entries = SumField(worker_status, "total", NUM_WORKERS),
                   !.pc = "processed"]
    ELSE IF d.pc = "processed"
    THEN LET processed == SumField(worker_status, "progress", NUM_WORKERS)
         IN  [d EXCEPT !.processed_entries = processed,
                       !.overall_percentage = percent(processed, d.total_entries),
                       !.pc = "stage", !.w = 1]
    ELSE IF d.pc = "stage"
    THEN [d EXCEPT !.stage = worker_status[d.w].stage, !.pc = "progress"]
    ELSE IF d.pc = "progress"
    THEN [d EXCEPT !.progress = worker_status[d.w].progress, !.pc = "total"]
    ELSE LET total == worker_status[d.w].total
         IN  [d EXCEPT !.total = total,
                       !.percentage = percent(d.progress, total),
                       !.pc = IF d.w < NUM_WORKERS THEN "stage" ELSE "top",
                       !.w = IF d.w < NUM_WORKERS THEN d.w + 1 ELSE 0]

DisplayStep ==
    /\ ThreadsRun
    /\ display.pc # "final"
    /\ display' = display_next(display)
    /\ UNCHANGED <<status_lock, update_pc, fallback_w, fallback_pc>>
    /\ UNCHANGED <<config_vars, file_vars, master_vars, worker_vars>>

\* ------------------------------------------------------------ combine_results
\* the keys of a dict, as list.extend(dict) sees them
Keys(d) == [i \in 1..Len(d.items) |-> JStr(d.items[i].k)]

\* "Extract entries based on data structure", then len(entries) and
\* combined_entries.extend(entries): what one result file adds
extract_entries(data_structure, result_data) ==
    LET found ==
          IF data_structure = "list"
          THEN [raises |-> FALSE, entries |-> result_data]
          ELSE IF data_structure = "dict_with_data"
          THEN IF isinstance_dict(result_data) /\ HasKey(result_data, "data")
               THEN [raises |-> FALSE, entries |-> GetItem(result_data, "data")]
               ELSE [raises |-> TRUE, entries |-> JList(<<>>)]
          ELSE IF data_structure = "dict_with_list"
          THEN IF ~isinstance_dict(result_data)
               THEN [raises |-> TRUE, entries |-> JList(<<>>)]
               ELSE IF list_fields(result_data) # <<>>
               THEN [raises |-> FALSE,
                     entries |-> GetItem(result_data, list_fields(result_data)[1])]
               ELSE [raises |-> FALSE, entries |-> JList(<<>>)]
          ELSE [raises |-> FALSE, entries |-> JList(<<result_data>>)]
    IN  IF found.raises \/ found.entries.t \in {"num", "str"}
        THEN [raises |-> TRUE, added |-> <<>>]
        ELSE IF isinstance_dict(found.entries)
        THEN [raises |-> FALSE, added |-> Keys(found.entries)]
        ELSE [raises |-> FALSE, added |-> found.entries.items]

\* "Create final output with original structure"
final_output(data_structure, original_data, combined) ==
    IF data_structure = "list" THEN JList(combined)
    ELSE IF data_structure = "dict_with_data"
    THEN SetItem(original_data, "data", JList(combined))
    ELSE IF data_structure = "dict_with_list"
    THEN IF list_fields(original_data) # <<>>
         THEN SetItem(original_data, list_fields(original_data)[1], JList(combined))
         ELSE original_data
    ELSE IF combined # <<>> THEN combined[1] ELSE EmptyDict

\* one iteration of "for fragment in fragments": read and parse the result
\* file, take its entries.  Any exception is logged and raised again.
CombineRead ==
    /\ m_pc = "combine"
    /\ combine_i < Len(fragments)
    /\ LET worker_id == fragments[combine_i + 1].worker_id
           got == extract_entries(ds.data_structure, result_file[worker_id])
       IN  IF json_load_raises(result_file[worker_id]) \/ got.raises
           THEN /\ m_pc' = "failed"
                /\ UNCHANGED <<combined_entries, combine_i>>
           ELSE /\ combined_entries' = combined_entries \o got.added
                /\ combine_i' = combine_i + 1
                /\ UNCHANGED m_pc
    /\ UNCHANGED <<start_idx, fragments, worker_status, last_position, new_lines>>
    /\ UNCHANGED <<config_vars, thread_vars, file_vars, worker_vars>>

\* after the loop: build final_data, write OUTPUT_FILE; main ends
CombineWrite ==
    /\ m_pc = "combine"
    /\ combine_i = Len(fragments)
    /\ output_file' = final_output(ds.data_structure, input_file, combined_entries)
    /\ m_pc' = "done"
    /\ UNCHANGED <<start_idx, fragments, worker_status, last_position, new_lines,
                   combined_entries, combine_i>>
    /\ UNCHANGED <<fragment_file, result_file, checkpoint_file, snapshot_file,
                   progress_file, log_file>>
    /\ UNCHANGED <<config_vars, thread_vars, worker_vars>>

MasterStep ==
    \/ MasterLoad \/ MasterSplit \/ MonitorReturn \/ MonitorInterrupted
    \/ CombineRead \/ CombineWrite
    \/ \E w \in Workers : WatcherRead(w) \/ WatcherLine(w) \/ MonitorResultFile(w)

\* ------------------------------------------------------------- the worker
Line(kind, current, total) == [kind |-> kind, current |-> current, total |-> total]
Call(processed, total, stage) ==
    [processed |-> processed, total |-> total, stage |-> stage]
Processed(calls) == [i \in 1..Len(calls) |-> calls[i].processed]

\* what the worker finds in its fragment file
w_ds(w) == detect_structure(fragment_file[w])
w_entries(w) == w_ds(w).entries.items
w_total(w) == len(w_ds(w).entries)

\* a wrapping that keeps a single object inside a one-element list
rewrap_single_in_list(data_structure, list_field_name, data, seq) ==
    IF data_structure = "list" THEN JList(seq)
    ELSE IF data_structure = "dict_with_data"
    THEN SetItem(data, "data", JList(seq))
    ELSE IF data_structure = "dict_with_list"
    THEN SetItem(data, list_field_name, JList(seq))
    ELSE JList(seq)

\* the document a worker writes for its entries: final_data of
\* process_fragment, result_data of save_checkpoint
rewrap(data_structure, list_field_name, data, seq) ==
    IF data_structure = "list" THEN JList(seq)
    ELSE IF data_structure = "dict_with_data"
    THEN SetItem(data, "data", JList(seq))
    ELSE IF data_structure = "dict_with_list"
    THEN SetItem(data, list_field_name, JList(seq))
    ELSE IF seq # <<>> THEN seq[1] ELSE EmptyDict

\* The collaborator (ollama.chat): the answer to each successive call is
\* "ok" or "fail"; an "ok" call returns a text, which may carry white space
\* around it.
Answers ==
    IF collab \in {"passthrough", "enhance"} THEN {[r \in 1..max_retries |-> "ok"]}
    ELSE IF collab = "down" THEN {[r \in 1..max_retries |-> "fail"]}
    ELSE [1..max_retries -> {"ok", "fail"}]
chat(original_output) ==
    IF collab = "passthrough"
    THEN [content |-> original_output, padded |-> FALSE]
    ELSE [content |-> "enhanced " \o original_output, padded |-> TRUE]
\* str.strip(): the text without the white space around it
strip(response) == response.content

\* a retry loop that blanks the output of an entry it gives up on
enhance_retry_blanking(entry, answers, retry) ==
    [raises |-> FALSE,
     entry |-> IF \A r \in 1..max_retries : answers[r] = "fail"
               THEN SetItem(entry, "output", JStr(""))
               ELSE SetItem(entry, "output",
                            JStr(strip(chat(IF HasKey(entry, "output")
                                            THEN GetItem(entry, "output").s ELSE "")))),
     calls |-> max_retries,
     exhausted |-> \A r \in 1..max_retries : answers[r] = "fail"]
\* a retry loop that goes through all its attempts, whatever the answers
enhance_retry_all_attempts(entry, answers, retry) ==
    [raises |-> FALSE,
     entry |-> IF \A r \in 1..max_retries : answers[r] = "fail"
               THEN entry
               ELSE SetItem(entry, "output",
                            JStr(strip(chat(IF HasKey(entry, "output")
                                            THEN GetItem(entry, "output").s ELSE "")))),
     calls |-> max_retries,
     exhausted |-> \A r \in 1..max_retries : answers[r] = "fail"]
\* the retry loop of enhance_description, from attempt `retry` (0-based) on
RECURSIVE enhance_retry(_, _, _)
enhance_retry(entry, answers, retry) ==
    IF retry >= max_retries
    THEN [raises |-> FALSE, entry |-> entry, calls |-> retry, exhausted |-> TRUE]
    ELSE IF answers[retry + 1] = "ok"
    THEN LET original_output == IF HasKey(entry, "output")
                                THEN GetItem(entry, "output").s ELSE ""
             enhanced_output == strip(chat(original_output))
         IN  [raises |-> FALSE,
              entry |-> SetItem(entry, "output", JStr(enhanced_output)),
              calls |-> retry + 1, exhausted |-> FALSE]
    ELSE enhance_retry(entry, answers, retry + 1)

\* enhance_description(entry): entry.get raises for an entry that is not a
\* mapping
enhance_description(entry, answers) ==
    IF ~isinstance_dict(entry)
    THEN [raises |-> TRUE, entry |-> entry, calls |-> 0, exhausted |-> FALSE]
    ELSE enhance_retry(entry, answers, 0)

\* an error handler that logs the entry and keeps nothing for it
entry_error_dropped(result_entries_w, entry) == result_entries_w
\* "except Exception" of the loop: result_entries.append(entries[i])
entry_error(result_entries_w, entry) == Append(result_entries_w, entry)

\* load_checkpoint(): the checkpoint, or None (state "absent")
load_checkpoint(w) ==
    IF checkpoint_file[w].state = "ok" THEN checkpoint_file[w] ELSE NoCheckpoint

\* a test that takes any checkpoint that loads, whatever its total
checkpoint_accepted_any_total(checkpoint, total) == checkpoint.state = "ok"
\* "if checkpoint and checkpoint["total"] == total_entries"
checkpoint_accepted(checkpoint, total) ==
    checkpoint.state = "ok" /\ checkpoint.total = total

\* a resume that keeps the index and drops the checkpointed entries
resume_from_index_only(checkpoint) ==
    [start_index |-> checkpoint.processed, result_entries |-> <<>>]
\* a resume that keeps the checkpointed entries and starts over at index 0
resume_from_zero(checkpoint) ==
    [start_index |-> 0, result_entries |-> checkpoint.processed_entries]
\* start_index and result_entries when the checkpoint is taken
resume_from(checkpoint) ==
    [start_index |-> checkpoint.processed,
     result_entries |-> checkpoint.processed_entries]
fresh_start == [start_index |-> 0, result_entries |-> <<>>]

\* a completion report that says nothing was processed
completed_call_zero(total) == Call(0, total, "completed")
\* save_progress(total_entries, total_entries, "completed")
completed_call(total) == Call(total, total, "completed")

\* a handler of write failures that gives the run up
write_failure_fatal(next_pc) == "error"
\* "except Exception as e: logger.warning / logger.error" of save_progress
\* and save_checkpoint: the failure is logged and the caller goes on
write_failure_logged(next_pc) == next_pc

\* what PROGRESS_FILE may hold after the save_progress calls `calls`: each
\* call writes its record, or fails at open (the file stays as it was) or
\* in json.dump (the file is left cut short); the failure is swallowed
TornProgress == [processed |-> 0, total |-> 0, stage |-> "torn"]
RECURSIVE progress_after(_, _)
progress_after(file, calls) ==
    IF calls = <<>> THEN {file}
    ELSE IF ~write_faults THEN {calls[Len(calls)]}
    ELSE {calls[Len(calls)], TornProgress}
             \cup progress_after(file, SubSeq(calls, 1, Len(calls) - 1))

\* the save_progress calls `calls` of worker w, in order
SaveProgress(w, calls) ==
    /\ \E written \in progress_after(progress_file[w], calls) :
         progress_file' = [progress_file EXCEPT ![w] = written]
    /\ progress_calls' = [progress_calls EXCEPT ![w] = @ \o Processed(calls)]

\* "except Exception" of process_fragment: log, save_progress(0, 0, "error"),
\* raise
ProcessFragmentRaises(w, calls) ==
    /\ log_file' = [log_file EXCEPT ![w] =
                       Append(@, Line("Error processing fragment", 0, 0))]
    /\ SaveProgress(w, calls \o <<Call(0, 0, "error")>>)
    /\ w_pc' = [w_pc EXCEPT ![w] = "error"]

\* main() of the worker: start_ollama_with_bash, then process_fragment unless
\* the service did not come up.  Workers are launched once their fragment is
\* there; a crashed worker may be launched again.
WorkerStart(w) ==
    /\ w_pc[w] \in {"idle", "crashed"}
    /\ w_run[w] < MaxRuns
    /\ exists(fragment_file[w])
    /\ w_run' = [w_run EXCEPT ![w] = @ + 1]
    /\ log_file' = [log_file EXCEPT ![w] = Append(@, Line("Starting Ollama", 0, 0))]
    /\ \E outcome \in {"ollama_ready", "ollama_start_failed"} :
         /\ w_pc' = [w_pc EXCEPT ![w] =
                        IF outcome = "ollama_ready" THEN "process" ELSE "exited"]
         /\ LET calls == <<Call(0, 0, "starting_ollama"), Call(0, 0, outcome)>>
            IN  /\ \E written \in progress_after(progress_file[w], calls) :
                     progress_file' = [progress_file EXCEPT ![w] = written]
                /\ progress_calls' = [progress_calls EXCEPT ![w] = Processed(calls)]
    /\ UNCHANGED <<start_index, loop_i, result_entries, resumed_from, exhausted, chat_calls>>
    /\ UNCHANGED <<fragment_file, result_file, checkpoint_file, snapshot_file,
                   output_file>>
    /\ UNCHANGED <<config_vars, thread_vars, master_vars>>

\* process_fragment up to the for loop: load the fragment, detect its
\* structure, take the checkpoint if its total is the fragment's
WorkerLoad(w) ==
    /\ w_pc[w] = "process"
    /\ LET loading == <<Call(0, 0, "loading")>>
           total == w_total(w)
           checkpoint == load_checkpoint(w)
           resume == checkpoint_accepted(checkpoint, total)
           from == IF resume THEN resume_from(checkpoint) ELSE fresh_start
       IN  IF \/ json_load_raises(fragment_file[w])
              \/ w_ds(w).raises
              \/ len_raises(w_ds(w).entries)
              \/ slice_raises(w_ds(w).entries)
           THEN /\ ProcessFragmentRaises(w, loading)
                /\ UNCHANGED <<start_index, loop_i, result_entries, resumed_from>>
           ELSE /\ start_index' = [start_index EXCEPT ![w] = from.start_index]
                /\ loop_i' = [loop_i EXCEPT ![w] = from.start_index]
                /\ result_entries' = [result_entries EXCEPT ![w] = from.result_entries]
                /\ resumed_from' = [resumed_from EXCEPT ![w] =
                        IF resume THEN checkpoint.processed_entries ELSE <<>>]
                /\ SaveProgress(w, loading \o <<Call(0, total, "loaded"),
                        IF resume THEN Call(from.start_index, total, "resumed")
                        ELSE Call(0, total, "processing")>>)
                /\ w_pc' = [w_pc EXCEPT ![w] = "loop"]
                /\ UNCHANGED log_file
    /\ UNCHANGED <<w_run, exhausted, chat_calls>>
    /\ UNCHANGED <<fragment_file, result_file, checkpoint_file, snapshot_file,
                   output_file>>
    /\ UNCHANGED <<config_vars, thread_vars, master_vars>>

\* one iteration of "for i in range(start_index, total_entries)".  When a
\* checkpoint is due the iteration stops after open(CHECKPOINT_FILE, 'w'),
\* which truncates the file or fails, and WorkerCheckpoint finishes it.
WorkerEntry(w) ==
    /\ w_pc[w] = "loop"
    /\ loop_i[w] < w_total(w)
    /\ \E answers \in Answers :
         LET i == loop_i[w]
             entry == w_entries(w)[i + 1]
             r == enhance_description(entry, answers)
             processed_count == Len(result_entries[w]) + 1
         IN  /\ exhausted' = [exhausted EXCEPT ![w] =
                    IF r.exhausted THEN @ \cup {i} ELSE @]
             /\ chat_calls' = [chat_calls EXCEPT ![w] =
                    [call \in 1..r.calls |-> answers[call]]]
             /\ IF r.raises
                THEN \* except Exception: keep the original entry
                     /\ result_entries' = [result_entries EXCEPT ![w] =
                                              entry_error(@, entry)]
                     /\ loop_i' = [loop_i EXCEPT ![w] = i + 1]
                     /\ UNCHANGED <<w_pc, checkpoint_file, progress_file, progress_calls>>
                ELSE /\ result_entries' = [result_entries EXCEPT ![w] = Append(@, r.entry)]
                     /\ IF processed_count % CHECKPOINT_INTERVAL = 0
                        THEN /\ \E opened \in (IF write_faults THEN BOOLEAN
                                                             ELSE {TRUE}) :
                                  IF opened
                                  THEN /\ checkpoint_file' =
                                            [checkpoint_file EXCEPT ![w] =
                                                [NoCheckpoint EXCEPT !.state = "torn"]]
                                       /\ w_pc' = [w_pc EXCEPT ![w] = "checkpoint"]
                                  ELSE /\ UNCHANGED checkpoint_file
                                       /\ w_pc' = [w_pc EXCEPT ![w] =
                                                      "checkpoint_failed"]
                             /\ UNCHANGED <<loop_i, progress_file, progress_calls>>
                        ELSE /\ loop_i' = [loop_i EXCEPT ![w] = i + 1]
                             /\ IF processed_count % PROGRESS_INTERVAL = 0
                                THEN SaveProgress(w, <<Call(processed_count,
                                                       w_total(w), "processing")>>)
                                ELSE UNCHANGED <<progress_file, progress_calls>>
                             /\ UNCHANGED <<w_pc, checkpoint_file>>
    /\ UNCHANGED <<w_run, start_index, resumed_from>>
    /\ UNCHANGED <<fragment_file, result_file, snapshot_file, log_file, output_file>>
    /\ UNCHANGED <<config_vars, thread_vars, master_vars>>

\* the rest of save_checkpoint and of the iteration that called it: dump the
\* checkpoint, write the snapshot, save_progress, log "Processed x/y entries"
checkpoint_outcomes(w) ==
    IF w_pc[w] = "checkpoint_failed" THEN {"open_failed"}
    ELSE {"saved"} \cup (IF write_faults
                          THEN {"dump_failed", "snapshot_open_failed",
                                "snapshot_dump_failed"}
                          ELSE {})
WorkerCheckpoint(w) ==
    /\ w_pc[w] \in {"checkpoint", "checkpoint_failed"}
    /\ LET processed_count == Len(result_entries[w])
           total == w_total(w)
       IN  /\ \E outcome \in checkpoint_outcomes(w) :
                /\ checkpoint_file' = [checkpoint_file EXCEPT ![w] =
                       IF outcome \in {"open_failed", "dump_failed"} THEN @
                       ELSE [state |-> "ok", processed |-> processed_count,
                             total |-> total,
                             processed_entries |-> result_entries[w]]]
                /\ snapshot_file' = [snapshot_file EXCEPT ![w] =
                       IF outcome = "saved"
                       THEN rewrap(w_ds(w).data_structure, w_ds(w).list_field_name,
                                   fragment_file[w], result_entries[w])
                       ELSE IF outcome = "snapshot_dump_failed" THEN Torn
                       ELSE @]
                /\ w_pc' = [w_pc EXCEPT ![w] =
                       IF outcome = "saved" THEN "loop"
                       ELSE write_failure_logged("loop")]
           /\ log_file' = [log_file EXCEPT ![w] =
                  Append(@, Line("Processed", processed_count, total))]
           /\ SaveProgress(w, <<Call(processed_count, total, "processing")>>
                  \o (IF processed_count % PROGRESS_INTERVAL = 0
                      THEN <<Call(processed_count, total, "processing")>>
                      ELSE <<>>))
    /\ loop_i' = [loop_i EXCEPT ![w] = @ + 1]
    /\ UNCHANGED <<w_run, start_index, result_entries, resumed_from, exhausted, chat_calls>>
    /\ UNCHANGED <<fragment_file, result_file, output_file>>
    /\ UNCHANGED <<config_vars, thread_vars, master_vars>>

\* after the loop: open(OUTPUT_FILE, 'w') creates or truncates the result
\* file; if it cannot be opened the function logs, reports and raises
WorkerFinalOpen(w) ==
    /\ w_pc[w] = "loop"
    /\ loop_i[w] >= w_total(w)
    /\ \E opened \in BOOLEAN :
         IF opened
         THEN /\ result_file' = [result_file EXCEPT ![w] = Torn]
              /\ w_pc' = [w_pc EXCEPT ![w] = "dump"]
              /\ UNCHANGED <<log_file, progress_file, progress_calls>>
         ELSE /\ ProcessFragmentRaises(w, <<>>)
              /\ UNCHANGED result_file
    /\ UNCHANGED <<w_run, start_index, loop_i, result_entries, resumed_from,
                   exhausted, chat_calls>>
    /\ UNCHANGED <<fragment_file, checkpoint_file, snapshot_file, output_file>>
    /\ UNCHANGED <<config_vars, thread_vars, master_vars>>

\* json.dump(final_data, f): the result file is complete; if the write
\* fails the file stays cut short and the function logs, reports and raises
WorkerFinalDump(w) ==
    /\ w_pc[w] = "dump"
    /\ \E dumped \in (IF write_faults THEN BOOLEAN ELSE {TRUE}) :
         IF dumped
         THEN /\ result_file' = [result_file EXCEPT ![w] =
                     rewrap(w_ds(w).data_structure, w_ds(w).list_field_name,
                            fragment_file[w], result_entries[w])]
              /\ w_pc' = [w_pc EXCEPT ![w] = "cleanup"]
              /\ UNCHANGED <<log_file, progress_file, progress_calls>>
         ELSE /\ ProcessFragmentRaises(w, <<>>)
              /\ UNCHANGED result_file
    /\ UNCHANGED <<w_run, start_index, loop_i, result_entries,
                   resumed_from, exhausted, chat_calls>>
    /\ UNCHANGED <<fragment_file, checkpoint_file, snapshot_file, output_file>>
    /\ UNCHANGED <<config_vars, thread_vars, master_vars>>

\* "Clean up checkpoint files after successful completion": both os.remove
\* calls stand in one try whose "except: pass" swallows whatever they raise.
\* A file that is there may fail to be removed; when the first removal
\* raises, the second is not tried.
cleanup_outcomes(w) ==
    {[checkpoint |-> TRUE, snapshot |-> TRUE]}
    \cup (IF checkpoint_file[w].state # "absent"
          THEN {[checkpoint |-> FALSE, snapshot |-> FALSE]} ELSE {})
    \cup (IF exists(snapshot_file[w])
          THEN {[checkpoint |-> TRUE, snapshot |-> FALSE]} ELSE {})
WorkerCleanup(w) ==
    /\ w_pc[w] = "cleanup"
    /\ \E removed \in cleanup_outcomes(w) :
         /\ checkpoint_file' = [checkpoint_file EXCEPT ![w] =
                IF removed.checkpoint THEN NoCheckpoint ELSE @]
         /\ snapshot_file' = [snapshot_file EXCEPT ![w] =
                IF removed.snapshot THEN NoFile ELSE @]
    /\ w_pc' = [w_pc EXCEPT ![w] = "finish"]
    /\ UNCHANGED <<w_run, start_index, loop_i, result_entries, progress_calls,
                   resumed_from, exhausted, chat_calls>>
    /\ UNCHANGED <<fragment_file, result_file, progress_file, log_file, output_file>>
    /\ UNCHANGED <<config_vars, thread_vars, master_vars>>

\* save_progress(total, total, "completed") and the "Processing completed" line
WorkerFinish(w) ==
    /\ w_pc[w] = "finish"
    /\ SaveProgress(w, <<completed_call(w_total(w))>>)
    /\ log_file' = [log_file EXCEPT ![w] = Append(@, Line("Processing completed", 0, 0))]
    /\ w_pc' = [w_pc EXCEPT ![w] = "done"]
    /\ UNCHANGED <<w_run, start_index, loop_i, result_entries, resumed_from,
                   exhausted, chat_calls>>
    /\ UNCHANGED <<fragment_file, result_file, checkpoint_file, snapshot_file,
                   output_file>>
    /\ UNCHANGED <<config_vars, thread_vars, master_vars>>

\* the worker process is interrupted from outside: its memory is lost, its
\* files stay as they are
Running == {"process", "loop", "checkpoint", "checkpoint_failed", "dump",
            "cleanup", "finish"}
WorkerCrash(w) ==
    /\ w_pc[w] \in Running
    /\ w_pc' = [w_pc EXCEPT ![w] = "crashed"]
    /\ start_index' = [start_index EXCEPT ![w] = 0]
    /\ loop_i' = [loop_i EXCEPT ![w] = 0]
    /\ result_entries' = [result_entries EXCEPT ![w] = <<>>]
    /\ resumed_from' = [resumed_from EXCEPT ![w] = <<>>]
    /\ exhausted' = [exhausted EXCEPT ![w] = {}]
    /\ chat_calls' = [chat_calls EXCEPT ![w] = <<>>]
    /\ UNCHANGED <<w_run, progress_calls>>
    /\ UNCHANGED <<config_vars, thread_vars, file_vars, master_vars>>

WorkerRun(w) ==
    \/ WorkerStart(w) \/ WorkerLoad(w) \/ WorkerEntry(w) \/ WorkerCheckpoint(w)
    \/ WorkerFinalOpen(w) \/ WorkerFinalDump(w) \/ WorkerCleanup(w)
    \/ WorkerFinish(w)
WorkerStep(w) == WorkerRun(w) \/ WorkerCrash(w)

\* ------------------------------------------------------------ initial states
\* left_checkpoints: what an earlier, interrupted run may have left as the
\* checkpoint file of a worker
\* left_results: what an earlier run may have left as the result file of the
\* last worker
InitFiles(docs, workers, collabs, left_checkpoints, left_results, faults) ==
    /\ NUM_WORKERS \in workers
    /\ collab \in collabs
    /\ write_faults \in faults
    /\ input_file \in docs
    /\ fragment_file = [w \in Workers |-> NoFile]
    /\ \E left \in left_results :
         result_file = [w \in Workers |-> IF w = NUM_WORKERS THEN left ELSE NoFile]
    /\ checkpoint_file \in [Workers -> left_checkpoints]
    /\ snapshot_file = [w \in Workers |-> NoFile]
    /\ progress_file = [w \in Workers |-> NoProgress]
    /\ log_file = [w \in Workers |-> <<>>]
    /\ output_file = NoFile
    /\ m_pc = "load"
    /\ start_idx = 0
    /\ fragments = <<>>
    /\ worker_status = [w \in Workers |-> NoStatus]
    /\ last_position = [w \in Workers |-> 0]
    /\ new_lines = [w \in Workers |-> <<>>]
    /\ combined_entries = <<>>
    /\ combine_i = 0
    /\ w_pc = [w \in Workers |-> "idle"]
    /\ w_run = [w \in Workers |-> 0]
    /\ start_index = [w \in Workers |-> 0]
    /\ loop_i = [w \in Workers |-> 0]
    /\ result_entries = [w \in Workers |-> <<>>]
    /\ progress_calls = [w \in Workers |-> <<>>]
    /\ resumed_from = [w \in Workers |-> <<>>]
    /\ exhausted = [w \in Workers |-> {}]
    /\ chat_calls = [w \in Workers |-> <<>>]
    /\ status_lock = 0
    /\ update_pc = [w \in Workers |-> 0]
    /\ fallback_w = 0
    /\ fallback_pc = 0
    /\ display = NoDisplay
\* a run in which no write to RESULT_DIR fails
InitWith(docs, workers, collabs, left_checkpoints, left_results) ==
    InitFiles(docs, workers, collabs, left_checkpoints, left_results, {FALSE})

\* the partitioner alone, on every small document and worker count
InitSplit == InitWith(WellFormedDocs(SplitEntries) \cup BadDocs,
                      1..SplitWorkers, {"passthrough"}, {NoCheckpoint}, {NoFile})
NextSplit == MasterLoad \/ MasterSplit
SpecSplit == InitSplit /\ [][NextSplit]_vars

\* one worker alone on the fragment the partitioner wrote for it: small
\* fragments with every behaviour of the collaborator, large fragments (with
\* checkpoints) with a collaborator that always answers or never does; the
\* checkpoint file of an earlier run may be there
MixedDoc == JList(<<Entry(1), JNum("7"), Entry(3)>>)
SmallDocs == WellFormedDocs(SmallEntries) \cup {MixedDoc}
LargeDocs == UNION {{ListDoc(j * CHECKPOINT_INTERVAL),
                     NamedListDoc(j * CHECKPOINT_INTERVAL + 1)} : j \in 1..Intervals}
OldEntry(i) == JDict(<<Member("output", JStr(Text("old", i)))>>)
StaleCheckpoint ==
    [state |-> "ok", processed |-> CHECKPOINT_INTERVAL,
     total |-> CHECKPOINT_INTERVAL + 50,
     processed_entries |-> [i \in 1..CHECKPOINT_INTERVAL |-> OldEntry(i)]]
TornCheckpoint == [NoCheckpoint EXCEPT !.state = "torn"]
LeftCheckpoints == {NoCheckpoint, TornCheckpoint, StaleCheckpoint}

\* a list whose last entry is not a mapping
MalformedLast(n) == JList(Entries(n - 1) \o <<JNum("7")>>)
InitWorker ==
    \/ InitWith(SmallDocs, {1}, {"passthrough", "enhance", "down", "flaky"},
                LeftCheckpoints, {NoFile})
    \/ InitWith(LargeDocs, {1}, {"enhance", "down"}, LeftCheckpoints, {NoFile})
    \/ InitWith({MalformedLast(CHECKPOINT_INTERVAL)}, {1}, {"enhance"},
                {NoCheckpoint}, {NoFile})
NextWorker == MasterLoad \/ MasterSplit \/ \E w \in Workers : WorkerStep(w)
SpecWorker == InitWorker /\ [][NextWorker]_vars

\* one worker whose writes to RESULT_DIR may fail, never interrupted
FaultDocs == {ListDoc(SmallEntries), SingleDoc, ListDoc(CHECKPOINT_INTERVAL),
              NamedListDoc(CHECKPOINT_INTERVAL + 1)}
InitFaults == InitFiles(FaultDocs, {1}, {"enhance", "down"}, {NoCheckpoint},
                        {NoFile}, {TRUE})
NextFaults == MasterLoad \/ MasterSplit \/ \E w \in Workers : WorkerRun(w)
SpecFaults == InitFaults /\ [][NextFaults]_vars

\* the whole system on small documents: the master, its threads and the
\* workers, no worker being killed (the master may get Ctrl+C); the result
\* file of an earlier run on another dataset may be there
LeftResult == OldEntry(1)
SystemDocs ==
    {ListDoc(MaxEntries - 1), ListDoc(MaxEntries), DataDoc(MaxEntries),
     NamedListDoc(MaxEntries), SingleDoc} \cup BadDocs
\* the run is followed until the master process ends
MasterRuns == m_pc \notin {"done", "failed"}
\* and one worker on a fragment long enough for a checkpoint, and one
\* worker whose writes may fail
Init ==
    \/ InitWith(SystemDocs, 1..MaxWorkers, {"passthrough", "enhance"},
                {NoCheckpoint}, {NoFile, LeftResult})
    \/ InitWith({ListDoc(CHECKPOINT_INTERVAL)}, {1}, {"enhance"},
                {NoCheckpoint}, {NoFile})
    \/ InitFiles({ListDoc(1)}, {1}, {"enhance"}, {NoCheckpoint}, {NoFile},
                 {TRUE})
Next == MasterStep \/ (MasterRuns /\ \E w \in Workers : WorkerRun(w))
Spec == Init /\ [][Next]_vars

\* the master and its threads under fair scheduling, the operator not
\* interrupting: the main thread goes on while it can, its loop checks every
\* worker's result file in each pass, and every watcher thread gets its
\* turn.  Nothing is assumed about the speed of the workers: a worker may
\* stop for good at any point.
LiveDocs == {ListDoc(MaxEntries), NamedListDoc(MaxEntries - 1)}
InitLive ==
    \/ InitWith(LiveDocs, 1..MaxWorkers, {"enhance"}, {NoCheckpoint},
                {NoFile, LeftResult})
    \/ InitWith({ListDoc(CHECKPOINT_INTERVAL)}, {1}, {"enhance"}, {NoCheckpoint},
                {NoFile})
MainThread ==
    \/ MasterLoad \/ MasterSplit \/ MonitorReturn \/ CombineRead \/ CombineWrite
NextLive ==
    \/ MainThread
    \/ \E w \in Workers : MonitorResultFile(w)
    \/ \E w \in Workers : WatcherRead(w) \/ WatcherLine(w)
    \/ (MasterRuns /\ \E w \in Workers : WorkerRun(w))
Fairness ==
    /\ WF_vars(MainThread)
    /\ \A w \in 1..MaxWorkers :
          /\ WF_vars(w \in Workers /\ MonitorResultFile(w))
          /\ WF_vars(w \in Workers /\ WatcherRead(w))
          /\ WF_vars(w \in Workers /\ WatcherLine(w))
SpecLive == InitLive /\ [][NextLive]_vars /\ Fairness

\* the same threads under the same fairness, the workers being followed
\* after the master process has ended too: they are processes of their own
NextEnd ==
    \/ MainThread
    \/ \E w \in Workers : MonitorResultFile(w)
    \/ \E w \in Workers : WatcherRead(w) \/ WatcherLine(w)
    \/ \E w \in Workers : WorkerRun(w)
SpecEnd == InitLive /\ [][NextEnd]_vars /\ Fairness

\* the master with its display thread, the blocks under the status lock
\* taken one assignment at a time, and one worker on a fragment long enough
\* for a "Processed x/y entries" line
InitDisplay == InitWith({ListDoc(CHECKPOINT_INTERVAL)}, {1}, {"enhance"},
                        {NoCheckpoint}, {NoFile})
NextDisplay ==
    \/ MainThread
    \/ FallbackWrite
    \/ DisplayStep
    \/ \E w \in Workers : FallbackLock(w)
    \/ \E w \in Workers : WatcherRead(w)
    \/ \E w \in Workers : WatcherLock(w) \/ WatcherWrite(w) \/ WatcherUnlock(w)
    \/ (MasterRuns /\ \E w \in Workers : WorkerRun(w))
SpecDisplay == InitDisplay /\ [][NextDisplay]_vars

\* ================================================================ the claims
RECURSIVE SumSizes(_, _)
SumSizes(frs, n) == IF n = 0 THEN 0 ELSE frs[n].size + SumSizes(frs, n - 1)

RECURSIVE ConcatSlices(_, _)
ConcatSlices(seq, frs) ==
    IF frs = <<>> THEN <<>>
    ELSE Slice(seq, Head(frs).start_idx, Head(frs).end_idx)
             \o ConcatSlices(seq, Tail(frs))

\* the entries a reader finds in fragment file w
FragmentEntries(w) == detect_structure(fragment_file[w]).entries.items
RECURSIVE ConcatFragmentFiles(_)
ConcatFragmentFiles(n) ==
    IF n = 0 THEN <<>> ELSE ConcatFragmentFiles(n - 1) \o FragmentEntries(n)

SplitDone == m_pc = "monitor"

\* C1: the fragment sizes sum to N, any two differ by at most 1, and exactly
\* the first N mod W workers get the larger size N div W + 1
C1_FragmentSizes ==
    /\ \A i \in 1..Len(fragments) :
          fragments[i].size = (total_entries \div NUM_WORKERS)
                + (IF i <= total_entries % NUM_WORKERS THEN 1 ELSE 0)
    /\ \A i, j \in 1..Len(fragments) :
          fragments[i].size - fragments[j].size \in {-1, 0, 1}
    /\ SplitDone =>
          /\ Len(fragments) = NUM_WORKERS
          /\ SumSizes(fragments, NUM_WORKERS) = total_entries
          /\ \A w \in Workers : worker_status[w].total = fragments[w].size
C1_Witness ==
    /\ SplitDone /\ NUM_WORKERS = 4 /\ total_entries = 23
    /\ [w \in Workers |-> fragments[w].size] = <<6, 6, 6, 5>>

\* C2: the fragments are contiguous and do not overlap: the first starts at
\* 0, each starts where the one before ends (the cumulative size), the last
\* ends at N, and the slices in ascending worker id give back the entries
C2_Contiguous ==
    /\ \A i \in 1..Len(fragments) :
          /\ fragments[i].worker_id = i
          /\ fragments[i].start_idx = SumSizes(fragments, i - 1)
          /\ fragments[i].end_idx = fragments[i].start_idx + fragments[i].size
          /\ i > 1 => fragments[i].start_idx = fragments[i - 1].end_idx
    /\ Len(fragments) > 0 => fragments[1].start_idx = 0
    /\ SplitDone =>
          /\ fragments[NUM_WORKERS].end_idx = total_entries
          /\ ConcatSlices(entries.items, fragments) = entries.items
          /\ ds.data_structure # "single_object" =>
                ConcatFragmentFiles(NUM_WORKERS) = entries.items
C2_Witness ==
    /\ SplitDone /\ NUM_WORKERS = 3 /\ total_entries = 7
    /\ ds.data_structure = "dict_with_list"
    /\ FragmentEntries(2) = <<Entry(4), Entry(5)>>

\* ---------------------------------------------------------- one worker alone
\* the entries a reader finds in result file w
ResultEntries(w) == detect_structure(result_file[w]).entries.items
ResultWritten(w) == w_pc[w] \in {"cleanup", "finish", "done"}
IsPrefix(a, b) == Len(a) <= Len(b) /\ SubSeq(b, 1, Len(a)) = a
NonDecreasing(seq) == \A i \in 1..(Len(seq) - 1) : seq[i] <= seq[i + 1]
LastOr(seq, default) == IF seq = <<>> THEN default ELSE seq[Len(seq)]

\* C4: a run that took a checkpoint of j entries of a fragment of K entries
\* and ran to completion wrote a result whose first j entries are the
\* checkpointed entries and that has exactly K entries
C4_ResumeKeepsCheckpoint ==
    \A w \in Workers :
        /\ w_pc[w] \in Running \cup {"done"} => IsPrefix(resumed_from[w], result_entries[w])
        /\ ResultWritten(w) =>
              /\ ResultEntries(w) = result_entries[w]
              /\ IsPrefix(resumed_from[w], ResultEntries(w))
              /\ Len(resumed_from[w]) = start_index[w]
              /\ Len(ResultEntries(w)) = w_total(w)
C4_Witness ==
    /\ w_pc[1] = "done" /\ w_run[1] = 2
    /\ start_index[1] = CHECKPOINT_INTERVAL
    /\ w_total(1) = CHECKPOINT_INTERVAL + 1
    /\ Len(resumed_from[1]) = CHECKPOINT_INTERVAL
    /\ Len(ResultEntries(1)) = CHECKPOINT_INTERVAL + 1

\* C5: an entry whose retries all failed is in the result, at its own
\* position, as the original entry; the worker does not abort over it and
\* processes every later entry
C5_DegradeNotFail ==
    \A w \in Workers :
        /\ \A i \in exhausted[w] :
              /\ i < Len(result_entries[w])
              /\ result_entries[w][i + 1] = w_entries(w)[i + 1]
        /\ (exhausted[w] # {} /\ w_pc[w] = "error") =>
              Len(result_entries[w]) = w_total(w)
        /\ (exhausted[w] # {} /\ ResultWritten(w)) =>
              /\ Len(ResultEntries(w)) = w_total(w)
              /\ \A i \in exhausted[w] : ResultEntries(w)[i + 1] = w_entries(w)[i + 1]
C5_Witness ==
    /\ w_pc[1] = "done" /\ collab = "flaky"
    /\ exhausted[1] = {0} /\ w_total(1) = 2
    /\ ResultEntries(1)[1] = Entry(1)
    /\ ResultEntries(1)[2] # Entry(2)

\* the processed values of the save_progress calls a step of worker w adds
NewCalls(w) ==
    IF w_run'[w] = w_run[w]
    THEN SubSeq(progress_calls'[w], Len(progress_calls[w]) + 1, Len(progress_calls'[w]))
    ELSE progress_calls'[w]
Ended(w) == w_pc[w] \in {"done", "error"}

CheckpointSaved(w) ==
    \E i \in 1..Len(log_file[w]) : log_file[w][i].kind = "Processed"
ResultComplete(w) == ~json_load_raises(result_file[w])

\* C7: a worker interrupted after a checkpoint was saved and before its
\* result is complete leaves a checkpoint that loads and is valid for the
\* fragment, and the next run resumes from it
C7_Original ==
    [][\A w \in Workers :
          /\ (w_pc'[w] = "crashed" /\ CheckpointSaved(w) /\ ~ResultComplete(w)) =>
                checkpoint_accepted(load_checkpoint(w), w_total(w))'
          /\ (w_pc[w] = "process" /\ w_pc'[w] = "loop" /\ CheckpointSaved(w)
                  /\ ~ResultComplete(w)) =>
                /\ start_index'[w] > 0
                /\ start_index'[w] = checkpoint_file[w].processed]_vars

\* the entries of the checkpoint an earlier run left
OldEntries == {StaleCheckpoint.processed_entries[i] : i \in 1..CHECKPOINT_INTERVAL}

\* C8: the checkpoint is taken only if its total is the fragment's entry
\* count; otherwise the worker starts at index 0 with an empty result and no
\* entry of the rejected checkpoint gets into the result
C8_MismatchStartsFresh ==
    [][\A w \in Workers :
          /\ (w_pc[w] = "process" /\ w_pc'[w] = "loop") =>
                IF checkpoint_file[w].state = "ok"
                   /\ checkpoint_file[w].total = w_total(w)
                THEN /\ start_index'[w] = checkpoint_file[w].processed
                     /\ result_entries'[w] = checkpoint_file[w].processed_entries
                ELSE /\ start_index'[w] = 0
                     /\ loop_i'[w] = 0
                     /\ result_entries'[w] = <<>>
          /\ \A i \in 1..Len(result_entries'[w]) :
                result_entries'[w][i] \notin OldEntries]_vars
C8_Witness ==
    /\ w_pc[1] = "loop" /\ w_run[1] = 1
    /\ checkpoint_file[1] = StaleCheckpoint
    /\ StaleCheckpoint.total # w_total(1)
    /\ start_index[1] = 0 /\ loop_i[1] = 50
    /\ result_entries[1] = [i \in 1..50 |-> w_entries(1)[i]]

\* ------------------------------------------------------------ the whole system
\* the entries a reader finds in the output file
OutputEntries == detect_structure(output_file).entries.items
RECURSIVE ConcatResultFiles(_)
ConcatResultFiles(n) ==
    IF n = 0 THEN <<>> ELSE ConcatResultFiles(n - 1) \o ResultEntries(n)
\* what combine_results takes from the result files as they are now
RECURSIVE CombinedFrom(_)
CombinedFrom(n) ==
    IF n = 0 THEN <<>>
    ELSE CombinedFrom(n - 1) \o extract_entries(ds.data_structure, result_file[n]).added
AllWorkersDone == \A w \in Workers : w_pc[w] = "done"

\* C3: with a collaborator that returns every entry unchanged and every
\* worker run to completion, the entries of the combined output are the
\* concatenation of the workers' result entries in ascending worker id, which
\* is the original entry sequence
C3_Original ==
    (/\ m_pc = "done" /\ collab = "passthrough"
     /\ AllCompleted /\ AllWorkersDone
     /\ combined_entries = CombinedFrom(NUM_WORKERS)) =>
        /\ OutputEntries = ConcatResultFiles(NUM_WORKERS)
        /\ ConcatResultFiles(NUM_WORKERS) = entries.items

\* C9: combine_results starts only after every worker has been marked
\* Completed
C9_Original ==
    [][(m_pc = "monitor" /\ m_pc' = "combine") => AllCompleted]_vars

\* the document process_fragment writes as its result for a fragment of the
\* given structure
ExpectedShape(data_structure, doc) ==
    /\ ~json_load_raises(doc)
    /\ IF data_structure = "list" THEN isinstance_list(doc)
       ELSE IF data_structure = "dict_with_data"
       THEN isinstance_dict(doc) /\ HasKey(doc, "data")
                /\ isinstance_list(GetItem(doc, "data"))
       ELSE IF data_structure = "dict_with_list"
       THEN isinstance_dict(doc) /\ list_fields(doc) # <<>>
       ELSE isinstance_dict(doc)

\* C10: a result file that is missing, unparseable or not in the expected
\* shape makes combine_results fail, and no output is written from it
C10_Original ==
    [][(m_pc = "combine" /\ combine_i < Len(fragments)
            /\ (combine_i' # combine_i \/ m_pc' # m_pc)
            /\ ~ExpectedShape(ds.data_structure,
                              result_file[fragments[combine_i + 1].worker_id])) =>
          (m_pc' = "failed" /\ output_file' = output_file)]_vars

\* ------------------------------------------------------- the master's marks
\* the completion line of worker w is in its log
CompletionLogged(w) ==
    \E i \in 1..Len(log_file[w]) : log_file[w][i].kind = "Processing completed"
\* the watcher of worker w has the completion line before it
CompletionLineNext(w) ==
    new_lines[w] # <<>> /\ Head(new_lines[w]).kind = "Processing completed"

\* C11: a worker is marked Completed only on one of two signals, the
\* completion line in its log read by its watcher or its result file seen to
\* exist by the main loop; and while the master monitors, a worker whose
\* result file exists is eventually marked Completed, completion line or not
C11_MarkedOnEitherSignal ==
    /\ [][\A w \in Workers :
            (~worker_status[w].completed /\ worker_status'[w].completed) =>
                /\ CompletionLineNext(w) \/ exists(result_file[w])
                /\ worker_status'[w].status = "Completed"]_vars
    /\ \A w \in 1..MaxWorkers :
          (w \in Workers /\ m_pc = "monitor" /\ exists(result_file[w]))
              ~> (w \in Workers /\ worker_status[w].completed)
C11_Witness ==
    /\ m_pc = "monitor" /\ NUM_WORKERS = 2
    /\ worker_status[2].completed /\ worker_status[2].status = "Completed"
    /\ exists(result_file[2]) /\ ~CompletionLogged(2)
    /\ w_pc[2] = "idle"

\* what the claim about a worker's status looks at
StatusFields(w) ==
    [status |-> worker_status[w].status, progress |-> worker_status[w].progress,
     total |-> worker_status[w].total, stage |-> worker_status[w].stage]

\* C12: a status is created Ready by the partitioner, becomes Completed
\* once, and from then on no step changes its status, progress, total or
\* stage (looked at for workers that wrote their whole result in this run)
C12_Original ==
    [][\A w \in Workers :
          /\ (worker_status[w] = NoStatus /\ worker_status'[w] # NoStatus) =>
                worker_status'[w].status = "Ready"
          /\ (worker_status[w].status = "Completed" /\ ResultWritten(w)) =>
                StatusFields(w)' = StatusFields(w)]_vars

\* the watcher of worker w is in its block under the lock and has made some
\* of the assignments for its line and not yet all of them
PartlyApplied(w) ==
    /\ status_lock = w
    /\ update_pc[w] \in 2..writes_of(Head(new_lines[w]))

\* C13: every read of a worker's status is made under the status lock, so
\* the display reads the progress and the total of a worker, from which it
\* computes the percentage, only when no update of that status is partly
\* applied
C13_Original ==
    [][(display.pc \in {"progress", "total"} /\ display' # display) =>
          ~PartlyApplied(display.w)]_vars

\* ------------------------------------------------------- shapes and wrapping
\* the slice of the source entries that went into fragment i
FragmentSlice(i) ==
    Slice(entries.items, fragments[i].start_idx, fragments[i].end_idx)

\* C14: for each of the four shapes and every entry sequence, the empty one
\* too, the document the entries are wrapped into is detected as the same
\* shape with the same entries
C14_Original ==
    \A i \in 1..Len(fragments) :
        /\ ~detect_structure(fragment_file[i]).raises
        /\ detect_structure(fragment_file[i]).data_structure = ds.data_structure
        /\ FragmentEntries(i) = FragmentSlice(i)

\* the mapping the collaborator of this run makes of a mapping
Transformed(e) ==
    IF collab = "passthrough" THEN e
    ELSE SetItem(e, "output", JStr("enhanced " \o GetItem(e, "output").s))

\* C15: for a single-object source a fragment of one entry is that entry
\* itself and a fragment of no entry is the empty mapping; with one worker
\* the only fragment is the source mapping, and the worker's result and the
\* combined output are the transformed mapping, not a list holding it
C15_SingleObject ==
    ds.data_structure = "single_object" =>
        /\ \A i \in 1..Len(fragments) :
              fragment_file[i] = IF FragmentSlice(i) = <<>> THEN EmptyDict
                                 ELSE FragmentSlice(i)[1]
        /\ (NUM_WORKERS = 1 /\ m_pc \in {"monitor", "combine", "done"}) =>
              /\ Len(fragments) = 1
              /\ fragment_file[1] = input_file
              /\ ResultWritten(1) =>
                    /\ isinstance_dict(result_file[1])
                    /\ result_file[1] = Transformed(input_file)
              /\ (m_pc = "done" /\ AllWorkersDone
                      /\ combined_entries = CombinedFrom(NUM_WORKERS)) =>
                    /\ isinstance_dict(output_file)
                    /\ output_file = Transformed(input_file)
C15_Witness ==
    /\ ds.data_structure = "single_object" /\ NUM_WORKERS = 1
    /\ collab = "enhance" /\ m_pc = "done" /\ AllWorkersDone
    /\ input_file = SingleDoc
    /\ result_file[1] = output_file
    /\ output_file = JDict(<<Member("input", JStr("in1")),
                              Member("output", JStr("enhanced out1"))>>)

\* C16: a worker whose fragment has 0 entries processes nothing, sees
\* total = 0, the total the master holds for it, and ends with a progress
\* record of processed = total = 0
C16_Original ==
    \A i \in 1..Len(fragments) :
        (fragments[i].size = 0 /\ w_pc[i] = "done") =>
            /\ w_total(i) = 0
            /\ w_total(i) = fragments[i].size
            /\ result_entries[i] = <<>>
            /\ progress_file[i].processed = 0
            /\ progress_file[i].total = 0

\* ------------------------------------------------------ the worker's files
\* the worker is between two iterations of its loop, or after the last
BetweenEntries(w) == w_pc[w] = "loop"
\* the number of accumulated entries was reached in this run
ReachedNow(w) == Len(result_entries[w]) > start_index[w]

\* C17: when the number of accumulated entries has reached a multiple of
\* 100, the checkpoint, the snapshot and the progress record hold that
\* number before the next entry is processed, whatever the entry's outcome;
\* at a multiple of 10 the progress record holds it
C17_Original ==
    \A w \in Workers :
        LET n == Len(result_entries[w])
        IN  (BetweenEntries(w) /\ ReachedNow(w)) =>
              /\ n % CHECKPOINT_INTERVAL = 0 =>
                    /\ checkpoint_file[w].state = "ok"
                    /\ checkpoint_file[w].processed = n
                    /\ checkpoint_file[w].processed_entries = result_entries[w]
                    /\ snapshot_file[w] =
                          rewrap(w_ds(w).data_structure, w_ds(w).list_field_name,
                                 fragment_file[w], result_entries[w])
                    /\ progress_file[w].processed = n
              /\ n % PROGRESS_INTERVAL = 0 => progress_file[w].processed = n

\* C18: in every state where the progress record says completed, the final
\* result file holds all K entries of the fragment and neither the
\* checkpoint nor the temporary snapshot remains
C18_Original ==
    \A w \in Workers :
        progress_file[w].stage = "completed" =>
            /\ progress_file[w].processed = progress_file[w].total
            /\ Len(result_entries[w]) = w_total(w)
            /\ result_file[w] =
                  rewrap(w_ds(w).data_structure, w_ds(w).list_field_name,
                         fragment_file[w], result_entries[w])
            /\ checkpoint_file[w].state = "absent"
            /\ ~exists(snapshot_file[w])

\* --------------------------------------------------------- the entry loop
\* a step of worker w that attempts an entry: it appends one result
AttemptStep(w) ==
    w_pc[w] = "loop" /\ Len(result_entries'[w]) > Len(result_entries[w])
\* the index the run resumed at: the checkpoint's count, 0 on a fresh start
ResumeIndex(w) == Len(resumed_from[w])

\* C19: within one run the entries are attempted one at a time in strictly
\* increasing index order from the resume index to total-1: an attempt is
\* for the index right after the results appended so far, its result is
\* appended when it ends, the next attempt is for the next index, and no
\* index below the resume index is attempted
C19_InIndexOrder ==
    [][\A w \in Workers :
         /\ AttemptStep(w) =>
               LET i == loop_i[w]
               IN  /\ i >= ResumeIndex(w) /\ i >= start_index[w]
                   /\ i < w_total(w)
                   /\ Len(result_entries[w]) = i
                   /\ \E answers \in Answers :
                         result_entries'[w] =
                             Append(result_entries[w],
                                    enhance_description(w_entries(w)[i + 1],
                                                        answers).entry)
                   /\ IF w_pc'[w] = "checkpoint"
                      THEN loop_i'[w] = i
                      ELSE w_pc'[w] = "loop" /\ loop_i'[w] = i + 1
         /\ (w_pc[w] = "checkpoint" /\ w_pc'[w] = "loop") =>
               /\ Len(result_entries[w]) = loop_i[w] + 1
               /\ loop_i'[w] = loop_i[w] + 1
               /\ result_entries'[w] = result_entries[w]]_vars
\* a run that resumed from a checkpoint has attempted two entries since
C19_Witness ==
    \E w \in Workers :
        /\ w_pc[w] = "loop"
        /\ ResumeIndex(w) > 0
        /\ loop_i[w] >= ResumeIndex(w) + 2
        /\ Len(result_entries[w]) = loop_i[w]

\* C20: for each entry enhance_description calls the collaborator at most
\* 3 times (max_retries), calls it again only after the call before failed,
\* and makes no call after one that succeeded
C20_BoundedRetries ==
    \A w \in Workers :
        LET calls == chat_calls[w]
        IN  /\ Len(calls) <= max_retries
            /\ \A call \in 1..Len(calls) :
                  /\ call > 1 => calls[call - 1] = "fail"
                  /\ calls[call] = "ok" => call = Len(calls)
\* an entry whose first call failed and whose second call succeeded
C20_Witness ==
    \E w \in Workers :
        /\ chat_calls[w] = <<"fail", "ok">>
        /\ w_pc[w] = "loop"
        /\ loop_i[w] > 0

\* ------------------------------------------------------- errors of a worker
\* the entry worker w attempts next is not a mapping: entry.get raises
NextEntryMalformed(w) ==
    /\ w_pc[w] = "loop"
    /\ loop_i[w] < w_total(w)
    /\ ~isinstance_dict(w_entries(w)[loop_i[w] + 1])
\* worker w moved on in its loop
LoopMoved(w) ==
    /\ w_pc'[w] # "crashed"
    /\ loop_i'[w] # loop_i[w] \/ result_entries'[w] # result_entries[w]

\* C21: an entry whose processing raises is caught at the entry level: the
\* original entry is put at position i of the result, exactly one result is
\* added for it, the loop goes on with entry i+1, and the final result has
\* exactly K entries with the original at the position of each such entry
C21_EntryErrorKeepsOriginal ==
    [][\A w \in Workers :
         /\ (NextEntryMalformed(w) /\ LoopMoved(w)) =>
               LET i == loop_i[w]
               IN  /\ Len(result_entries'[w]) = Len(result_entries[w]) + 1
                   /\ Len(result_entries'[w]) = i + 1
                   /\ result_entries'[w][i + 1] = w_entries(w)[i + 1]
                   /\ SubSeq(result_entries'[w], 1, i) = result_entries[w]
                   /\ loop_i'[w] = i + 1
                   /\ w_pc'[w] = "loop"
         /\ w_pc'[w] = "done" =>
               /\ Len(ResultEntries(w)') = w_total(w)'
               /\ \A i \in 1..w_total(w)' :
                     (i > Len(resumed_from'[w])
                        /\ ~isinstance_dict(w_entries(w)'[i])) =>
                         ResultEntries(w)'[i] = w_entries(w)'[i]]_vars
\* a three-entry list whose second entry is a number was processed to the
\* end: the number is kept and the third entry was enhanced
C21_Witness ==
    /\ input_file = MixedDoc /\ collab = "enhance"
    /\ w_pc[1] = "done"
    /\ Len(ResultEntries(1)) = 3
    /\ ResultEntries(1)[2] = JNum("7")
    /\ ResultEntries(1)[3] = Transformed(Entry(3))

\* C22: a failure while writing a checkpoint, a snapshot or a progress
\* record does not abort the worker and does not change the accumulated
\* entries: the step that finishes save_checkpoint goes back to the loop
\* with the same entries, an iteration adds its one result, the worker only
\* gives up while loading or when the final result cannot be opened or
\* written, and a worker that ends has written exactly K entries
C22_WriteFailureNotFatal ==
    [][\A w \in Workers :
         /\ (w_pc[w] \in {"checkpoint", "checkpoint_failed"}
                /\ w_pc'[w] # w_pc[w]) =>
               /\ w_pc'[w] = "loop"
               /\ result_entries'[w] = result_entries[w]
               /\ loop_i'[w] = loop_i[w] + 1
         /\ (w_pc[w] = "loop" /\ loop_i[w] < w_total(w) /\ LoopMoved(w)) =>
               /\ w_pc'[w] \in {"loop", "checkpoint", "checkpoint_failed"}
               /\ Len(result_entries'[w]) = Len(result_entries[w]) + 1
               /\ SubSeq(result_entries'[w], 1, Len(result_entries[w]))
                      = result_entries[w]
         /\ (w_pc'[w] = "error" /\ w_pc[w] # "error") =>
               \/ w_pc[w] = "process"
               \/ w_pc[w] = "loop" /\ loop_i[w] >= w_total(w)
               \/ w_pc[w] = "dump"
         /\ w_pc'[w] = "done" =>
               /\ Len(ResultEntries(w)') = w_total(w)'
               /\ result_file'[w] =
                     rewrap(w_ds(w).data_structure, w_ds(w).list_field_name,
                            fragment_file[w], result_entries[w])']_vars
\* a worker ended on a fragment of 100 entries although the dump of its
\* checkpoint and its last progress write failed
C22_Witness ==
    /\ write_faults /\ input_file = ListDoc(CHECKPOINT_INTERVAL)
    /\ w_pc[1] = "done"
    /\ checkpoint_file[1].state = "torn"
    /\ progress_file[1].stage # "completed"
    /\ Len(ResultEntries(1)) = CHECKPOINT_INTERVAL

\* worker w ended in the error state of process_fragment
Aborted(w) == w_pc[w] = "error"

\* C23: a worker that aborted with an error has left no final result file
\* and no completion line, the master does not mark it Completed and reads
\* no result of it (a file left by an earlier run aside)
C23_Original ==
    \A w \in Workers :
        (Aborted(w) /\ result_file[w] # LeftResult) =>
            /\ ~exists(result_file[w])
            /\ ~CompletionLogged(w)
            /\ ~worker_status[w].completed
            /\ combine_i < w

\* ------------------------------------------------------------- the shapes
\* two detections chose the same shape
SameShape(a, b) ==
    /\ ~a.raises /\ ~b.raises
    /\ a.data_structure = b.data_structure
    /\ a.list_field_name = b.list_field_name

\* C24: the shape a worker detects from its fragment file is the shape the
\* partitioner chose from the original document, for every fragment, those
\* of 0 entries included; the result a worker wrote has that shape too, and
\* the aggregator, which extracts with the partitioner's shape, gets the
\* entries that detection finds in the result
C24_SameShape ==
    \A w \in Workers :
        /\ exists(fragment_file[w]) => SameShape(w_ds(w), ds)
        /\ ResultWritten(w) =>
              /\ SameShape(detect_structure(result_file[w]), ds)
              /\ ~extract_entries(ds.data_structure, result_file[w]).raises
              /\ extract_entries(ds.data_structure, result_file[w]).added
                     = ResultEntries(w)
\* a run over two workers ended whose second fragment has no entry, for a
\* single-object source: the fragment is the empty mapping
C24_Witness ==
    /\ NUM_WORKERS = 2 /\ m_pc = "done" /\ AllWorkersDone
    /\ ds.data_structure = "single_object"
    /\ fragments[2].size = 0 /\ fragment_file[2] = EmptyDict
    /\ w_ds(2).data_structure = "single_object"
    /\ ResultWritten(2)

\* the source cannot be read or parsed, or no sequence of entries is found
\* in it
Unusable ==
    \/ json_load_raises(input_file)
    \/ ds.raises
    \/ ~isinstance_list(entries)
NothingWritten ==
    /\ fragments = <<>>
    /\ \A w \in Workers : ~exists(fragment_file[w]) /\ worker_status[w] = NoStatus

\* C25: for a source that cannot be read or parsed or has no usable shape,
\* load_and_split_data raises before any fragment file is written and before
\* any worker status is created; partitioning never fails with some
\* fragment files written
C25_FailsBeforeAnyFragment ==
    /\ Unusable => (NothingWritten /\ m_pc \in {"load", "split", "failed"})
    /\ (m_pc = "failed" /\ combine_i = 0 /\ combined_entries = <<>>
           /\ ~AllCompleted) => (Unusable /\ NothingWritten)
\* a mapping whose data value is a mapping got through the loading and made
\* the loop over the workers fail in its first iteration
C25_Witness ==
    /\ input_file = DataDictDoc /\ NUM_WORKERS >= 2
    /\ m_pc = "failed"
    /\ NothingWritten

\* the shape the four rules give a document: (a) a sequence, (b) a mapping
\* whose data value is a sequence, (c) a mapping with a sequence-valued
\* field, (d) anything else
RuleShape(data) ==
    IF isinstance_list(data) THEN "list"
    ELSE IF isinstance_dict(data) /\ HasKey(data, "data")
              /\ isinstance_list(GetItem(data, "data"))
    THEN "dict_with_data"
    ELSE IF isinstance_dict(data) /\ list_fields(data) # <<>>
    THEN "dict_with_list"
    ELSE "single_object"

\* C26: once the source is loaded, the shape the partitioner holds for a
\* list or a mapping is the first match of the four rules, a single object
\* has the document as its only entry, and the worker finds the shape of
\* its fragment by the same rules
C26_Original ==
    (m_pc # "load" /\ (isinstance_list(input_file) \/ isinstance_dict(input_file))) =>
        /\ ~ds.raises
        /\ ds.data_structure = RuleShape(input_file)
        /\ ds.data_structure = "dict_with_list" =>
              ds.list_field_name = list_fields(input_file)[1]
        /\ ds.data_structure = "single_object" => entries = JList(<<input_file>>)
        /\ \A w \in Workers :
              exists(fragment_file[w]) =>
                  w_ds(w).data_structure = RuleShape(fragment_file[w])

\* -------------------------------------------------- completion and the end
\* the master marks worker w Completed in this step
MarkedNow(w) == ~worker_status[w].completed /\ worker_status'[w].completed
\* combine_results reads the result file of worker w in this step
ReadNow(w) ==
    /\ m_pc = "combine" /\ combine_i = w - 1
    /\ combine_i' = w \/ m_pc' = "failed"

\* C27: when the master marks a worker Completed, that worker has finished
\* writing its final result in this run, and a result file that
\* combine_results reads after all workers were marked is a finished one
\* (a file left by an earlier run aside)
C27_Original ==
    [][\A w \in Workers :
         result_file[w] # LeftResult =>
             /\ MarkedNow(w) => ResultWritten(w)
             /\ (ReadNow(w) /\ AllCompleted) => ResultWritten(w)]_vars

\* the watcher of worker w has left its loop
WatcherStopped(w) == worker_status[w].completed
\* the run of the master has ended with the combined output written
OutputWritten == m_pc = "done" /\ exists(output_file)

\* C28: if every worker eventually writes its final result file, then with
\* the master's threads scheduled fairly the monitoring loop ends with
\* every worker marked Completed, every watcher stops, and combine_results
\* writes the combined output
C28_Original ==
    (\A w \in 1..MaxWorkers : <>(w \notin Workers \/ ResultWritten(w))) =>
        <>(/\ AllCompleted
           /\ \A w \in Workers : WatcherStopped(w)
           /\ OutputWritten)

====
